---- MODULE Spec2Model ----
(***************************************************************************)
(* Notification API: the socket layer (sockets/index.js), the notification *)
(* schema (models/Notification.js) and the HTTP routes                      *)
(* (routes/notifications.js), modelled as one state machine.  Every event   *)
(* handler body runs to completion on the Node event loop up to its next    *)
(* await: `await Notification.create(...)` splits POST /api/notifications   *)
(* in two steps (PostCreate, PostPush), and the `await Promise.all([...])`  *)
(* of GET /api/notifications/:receiverId is modelled both with its three    *)
(* queries answered together (Get) and one by one (GetStart .. GetRespond). *)
(***************************************************************************)
EXTENDS Integers, Sequences, FiniteSets, TLC

\* ---------------------------------------------------------------- bounds
MaxNotifs  == 2       \* notifications ever created in one run
MaxPending == 1       \* POST requests suspended at the await at one time
MaxUpdates == 2       \* timestamped updates applied to one notification

\* ------------------------------------------------------ program constants
DefaultLimit == 50    \* `limit = 50` of the GET query destructuring
DefaultSkip  == 0     \* `skip = 0` of the GET query destructuring

\* ------------------------------------------------------------ input sets
Null == "<null>"      \* an omitted / undefined / null JavaScript value

Sessions    == {"s1", "s2"}            \* socket ids
ReceiverIds == {"r1", "r2"}            \* non-empty receiver ids
Types       == {"chat", "order"}
AppIds      == {"app1", "app2"}
Channels    == {"c1"}

\* what a client may send in each position (missing and empty included)
ReceiverArgs == ReceiverIds \cup {Null, ""}
\* room names: the receiver ids and, socket.io putting every socket into a
\* room named by its own id on connection, the socket ids
Rooms == ReceiverIds \cup Sessions
TypeArgs     == Types \cup {Null, ""}
AppIdArgs    == AppIds \cup {Null, ""}
ChannelArgs  == Channels \cup {Null}
PayloadArgs  == {Null, "{k:1}"}
SenderArgs   == {Null}
LimitArgs    == {Null, "1"}
SkipArgs     == {Null, "1"}
UnreadOnlyArgs == {Null, "true"}

VARIABLES
  io,                 \* TRUE once initializeSocket has run (`let io`)
  connected,          \* sockets whose connection is open
  activeConnections,  \* the Map receiverId -> Set of socket ids
  rooms,              \* socket.io room membership: room name -> sockets
  lastEvt,            \* history, per socket and receiver: "subscribe" while
                      \* the last membership event is a subscribe, "ended"
                      \* once the socket disconnected in that state
                      \* (until its id is handed out again), else "none"
  store,              \* the Notification collection, in creation order
  pending,            \* ids whose POST handler is suspended after create
  req,                \* the HTTP request the last step handled (or NoReq)
  res,                \* the HTTP response the last step produced (or NoRes)
  out,                \* the socket messages the last step emitted
  get,                \* the GET request whose queries are being answered
  again               \* history: the last step was a subscribe of a socket
                      \* to a receiver whose set already held it

vars == <<io, connected, activeConnections, rooms, lastEvt, store, pending,
          req, res, out, get, again>>

\* ------------------------------------------------------ JavaScript helpers
\* `!x` for the values a string position can hold
Falsy(x) == x \in {Null, ""}

\* -------------------------------------------------- models/Notification.js
\* `timestamps: true`: createdAt is the creation instant (the creation order
\* stands for it) and updatedAt is rewritten by every update applied to the
\* document (the number of updates since creation stands for it, 0 meaning
\* updatedAt = createdAt).
\* schema defaults applied by Notification.create to omitted fields (Null
\* stands for a field the request left out)
DefaultIfNull(x, d) == IF x = Null THEN d ELSE x

\* mutant: the schema without the channel default
NewNotificationNoChannelDefault(id, receiverId, type, payload, appId, senderId, channel) ==
  [ id         |-> id,
    receiverId |-> receiverId,
    type       |-> type,
    payload    |-> DefaultIfNull(payload, "{}"),
    read       |-> FALSE,
    appId      |-> DefaultIfNull(appId, Null),
    senderId   |-> DefaultIfNull(senderId, Null),
    channel    |-> channel,
    createdAt  |-> id,
    updatedAt  |-> 0 ]

NewNotification(id, receiverId, type, payload, appId, senderId, channel) ==
  [ id         |-> id,
    receiverId |-> receiverId,
    type       |-> type,
    payload    |-> DefaultIfNull(payload, "{}"),
    read       |-> FALSE,
    appId      |-> DefaultIfNull(appId, Null),
    senderId   |-> DefaultIfNull(senderId, Null),
    channel    |-> DefaultIfNull(channel, "default"),
    createdAt  |-> id,
    updatedAt  |-> 0 ]

Ids == 1..Len(store)

\* ------------------------------------------------------- sockets/index.js
Tracked(receiverId) ==
  IF receiverId \in DOMAIN activeConnections
  THEN activeConnections[receiverId] ELSE {}

\* mutant: presence decided by the key alone, without the size test
isReceiverOnlineHasOnly(receiverId) ==
  receiverId \in DOMAIN activeConnections

isReceiverOnline(receiverId) ==
  /\ receiverId \in DOMAIN activeConnections
  /\ Cardinality(activeConnections[receiverId]) > 0

NoReq == [op |-> "none", receiverId |-> Null, appId |-> Null, type |-> Null,
          channel |-> Null, unreadOnly |-> Null, limit |-> Null, skip |-> Null,
          id |-> 0, payload |-> Null]
NoRes == [kind |-> "none", id |-> 0, delivered |-> FALSE,
          notifications |-> <<>>, total |-> 0, unreadCount |-> 0,
          isOnline |-> FALSE, modifiedCount |-> 0]

\* no GET between its validation and its response
NoGet == [active |-> FALSE, req |-> NoReq, done |-> {},
          notifications |-> <<>>, total |-> 0, unreadCount |-> 0]

Msg(to, event, receiverId, id) ==
  [to |-> to, event |-> event, receiverId |-> receiverId, id |-> id]

Init ==
  /\ io = FALSE
  /\ connected = {}
  /\ activeConnections = << >>
  /\ rooms = [r \in Rooms |-> {}]
  /\ lastEvt = [s \in Sessions |-> [r \in Rooms |-> "none"]]
  /\ store = << >>
  /\ pending = {}
  /\ req = NoReq
  /\ res = NoRes
  /\ out = {}
  /\ get = NoGet
  /\ again = FALSE

initializeSocket ==
  /\ ~io
  /\ io' = TRUE
  /\ req' = NoReq /\ res' = NoRes /\ out' = {}
  /\ UNCHANGED <<connected, activeConnections, rooms, lastEvt, store, pending>>
  /\ UNCHANGED get
  /\ again' = FALSE

\* io.on("connection"): a socket with a fresh id opens
Connect(s) ==
  /\ io
  /\ s \notin connected
  /\ connected' = connected \cup {s}
  /\ rooms' = [rooms EXCEPT ![s] = @ \cup {s}]
  /\ lastEvt' = [lastEvt EXCEPT ![s] = [r \in Rooms |-> "none"]]
  /\ req' = NoReq /\ res' = NoRes /\ out' = {}
  /\ UNCHANGED <<io, activeConnections, store, pending>>
  /\ UNCHANGED get
  /\ again' = FALSE

\* mutant: a subscribe of a socket the set already holds takes it out
SubscribeToggles(s, receiverId) ==
  /\ s \in connected
  /\ IF Falsy(receiverId)
     THEN /\ out' = {Msg(s, "error", Null, 0)}
          /\ UNCHANGED <<activeConnections, rooms, lastEvt>>
     ELSE /\ rooms' = [rooms EXCEPT ![receiverId] = @ \cup {s}]
          /\ activeConnections' =
               [r \in DOMAIN activeConnections \cup {receiverId} |->
                  IF r = receiverId
                  THEN (Tracked(r) \cup {s}) \ (Tracked(r) \cap {s})
                  ELSE activeConnections[r]]
          /\ lastEvt' = [lastEvt EXCEPT ![s][receiverId] = "subscribe"]
          /\ out' = {Msg(s, "subscribed", receiverId, 0)}
  /\ req' = NoReq /\ res' = NoRes
  /\ UNCHANGED <<io, connected, store, pending>>
  /\ UNCHANGED get
  /\ again' = (~Falsy(receiverId) /\ s \in Tracked(receiverId))

\* mutant: the handler goes on after reporting the error
SubscribeNoReturn(s, receiverId) ==
  /\ s \in connected
  /\ rooms' = [r \in DOMAIN rooms |->
                 IF r = receiverId THEN rooms[r] \cup {s} ELSE rooms[r]]
  /\ activeConnections' =
       [r \in DOMAIN activeConnections \cup {receiverId} |->
          IF r = receiverId THEN Tracked(r) \cup {s}
                            ELSE activeConnections[r]]
  /\ lastEvt' = [r \in DOMAIN lastEvt |->
                   IF r = s
                   THEN [x \in DOMAIN lastEvt[s] |->
                           IF x = receiverId THEN "subscribe"
                                             ELSE lastEvt[s][x]]
                   ELSE lastEvt[r]]
  /\ out' = {Msg(s, "subscribed", receiverId, 0)} \cup
            (IF Falsy(receiverId) THEN {Msg(s, "error", Null, 0)} ELSE {})
  /\ req' = NoReq /\ res' = NoRes
  /\ UNCHANGED <<io, connected, store, pending>>
  /\ UNCHANGED get
  /\ again' = (~Falsy(receiverId) /\ s \in Tracked(receiverId))

\* socket.on("subscribe")
Subscribe(s, receiverId) ==
  /\ s \in connected
  /\ IF Falsy(receiverId)
     THEN /\ out' = {Msg(s, "error", Null, 0)}
          /\ UNCHANGED <<activeConnections, rooms, lastEvt>>
     ELSE /\ rooms' = [rooms EXCEPT ![receiverId] = @ \cup {s}]
          /\ activeConnections' =
               [r \in DOMAIN activeConnections \cup {receiverId} |->
                  IF r = receiverId THEN Tracked(r) \cup {s}
                                    ELSE activeConnections[r]]
          /\ lastEvt' = [lastEvt EXCEPT ![s][receiverId] = "subscribe"]
          /\ out' = {Msg(s, "subscribed", receiverId, 0)}
  /\ req' = NoReq /\ res' = NoRes
  /\ UNCHANGED <<io, connected, store, pending>>
  /\ UNCHANGED get
  /\ again' = (~Falsy(receiverId) /\ s \in Tracked(receiverId))

\* mutant: the receiver's whole entry is deleted
UnsubscribeDeletesEntry(s, receiverId) ==
  /\ s \in connected
  /\ rooms' = [r \in DOMAIN rooms |->
                 IF r = receiverId THEN rooms[r] \ {s} ELSE rooms[r]]
  /\ activeConnections' =
       [r \in DOMAIN activeConnections \ {receiverId} |->
          activeConnections[r]]
  /\ lastEvt' = [lastEvt EXCEPT ![s] =
                   [r \in DOMAIN @ |->
                      IF r = receiverId THEN "none" ELSE @[r]]]
  /\ req' = NoReq /\ res' = NoRes /\ out' = {}
  /\ UNCHANGED <<io, connected, store, pending>>
  /\ UNCHANGED get
  /\ again' = FALSE

\* socket.on("unsubscribe")
Unsubscribe(s, receiverId) ==
  /\ s \in connected
  /\ rooms' = [r \in DOMAIN rooms |->
                 IF r = receiverId THEN rooms[r] \ {s} ELSE rooms[r]]
  /\ activeConnections' =
       IF receiverId \in DOMAIN activeConnections
       THEN [activeConnections EXCEPT ![receiverId] = @ \ {s}]
       ELSE activeConnections
  /\ lastEvt' = [lastEvt EXCEPT ![s] =
                   [r \in DOMAIN @ |->
                      IF r = receiverId THEN "none" ELSE @[r]]]
  /\ req' = NoReq /\ res' = NoRes /\ out' = {}
  /\ UNCHANGED <<io, connected, store, pending>>
  /\ UNCHANGED get
  /\ again' = FALSE

\* mutant: the disconnect loop deletes every entry the socket was in
DisconnectDropsEntries(s) ==
  /\ s \in connected
  /\ connected' = connected \ {s}
  /\ rooms' = [r \in DOMAIN rooms |-> rooms[r] \ {s}]
  /\ activeConnections' =
       [r \in {k \in DOMAIN activeConnections :
                 s \notin activeConnections[k]} |-> activeConnections[r]]
  /\ lastEvt' = [lastEvt EXCEPT ![s] =
                   [r \in Rooms |->
                      IF @[r] = "subscribe" THEN "ended" ELSE "none"]]
  /\ req' = NoReq /\ res' = NoRes /\ out' = {}
  /\ UNCHANGED <<io, store, pending>>
  /\ UNCHANGED get
  /\ again' = FALSE

\* socket.on("disconnect"): socket.io has left every room of the socket
Disconnect(s) ==
  /\ s \in connected
  /\ connected' = connected \ {s}
  /\ rooms' = [r \in DOMAIN rooms |-> rooms[r] \ {s}]
  /\ activeConnections' =
       [r \in {k \in DOMAIN activeConnections :
                 Cardinality(activeConnections[k] \ {s}) # 0} |->
          activeConnections[r] \ {s}]
  /\ lastEvt' = [lastEvt EXCEPT ![s] =
                   [r \in Rooms |->
                      IF @[r] = "subscribe" THEN "ended" ELSE "none"]]
  /\ req' = NoReq /\ res' = NoRes /\ out' = {}
  /\ UNCHANGED <<io, store, pending>>
  /\ UNCHANGED get
  /\ again' = FALSE

\* mutant: the emit reaches one socket of the room instead of all
sendNotificationToOne(receiverId, id) ==
  IF ~io
  THEN [ret |-> FALSE, emitted |-> {}]
  ELSE [ret |-> TRUE,
        emitted |-> IF rooms[receiverId] = {} THEN {}
                    ELSE {Msg(CHOOSE s \in rooms[receiverId] : TRUE,
                              "notification", receiverId, id)}]

\* sendNotification(receiverId, notification): the value returned and the
\* `notification` messages io.to(receiverId).emit hands to the room's sockets
sendNotification(receiverId, id) ==
  IF ~io
  THEN [ret |-> FALSE, emitted |-> {}]
  ELSE [ret |-> TRUE,
        emitted |-> {Msg(s, "notification", receiverId, id) :
                       s \in rooms[receiverId]}]

\* ------------------------------------------------ routes/notifications.js
Request(op, receiverId, appId, type, channel, unreadOnly, limit, skip, id) ==
  [op |-> op, receiverId |-> receiverId, appId |-> appId, type |-> type,
   channel |-> channel, unreadOnly |-> unreadOnly, limit |-> limit,
   skip |-> skip, id |-> id, payload |-> Null]

Error(kind) == [NoRes EXCEPT !.kind = kind]

\* a MongoDB filter: type / channel are Null when the key is absent,
\* unread is TRUE when the filter carries read: false
Query(receiverId, appId, unread, type, channel) ==
  [receiverId |-> receiverId, appId |-> appId, unread |-> unread,
   type |-> type, channel |-> channel]

\* mutant: a notification stored without appId matches every appId
MatchesNullAppIdAsAny(n, q) ==
  /\ n.receiverId = q.receiverId
  /\ n.appId = q.appId \/ n.appId = Null
  /\ q.unread => ~n.read
  /\ q.type # Null => n.type = q.type
  /\ q.channel # Null => n.channel = q.channel

Matches(n, q) ==
  /\ n.receiverId = q.receiverId
  /\ n.appId = q.appId
  /\ q.unread => ~n.read
  /\ q.type # Null => n.type = q.type
  /\ q.channel # Null => n.channel = q.channel

MatchingIds(q) == {i \in Ids : Matches(store[i], q)}

countDocuments(q) == Cardinality(MatchingIds(q))

\* ids of 1..n that are in S, highest first: .sort({ createdAt: -1 })
RECURSIVE SortDesc(_, _)
SortDesc(n, S) ==
  IF n = 0 THEN << >>
  ELSE IF n \in S THEN <<n>> \o SortDesc(n - 1, S) ELSE SortDesc(n - 1, S)

Min(a, b) == IF a < b THEN a ELSE b

\* mutant: the page starts one document too late
findSkipsOneMore(q, skip, limit) ==
  LET sorted == SortDesc(Len(store), {i \in Ids : Matches(store[i], q)})
  IN  SubSeq(sorted, skip + 2, Min(Len(sorted), skip + 1 + limit))

\* Notification.find(q).sort({createdAt: -1}).skip(skip).limit(limit)
find(q, skip, limit) ==
  LET sorted == SortDesc(Len(store), MatchingIds(q))
  IN  SubSeq(sorted, skip + 1, Min(Len(sorted), skip + limit))

\* parseInt on the decimal strings a client sends
parseInt(x) == CHOOSE n \in 0..9 : <<"0", "1", "2", "3", "4", "5", "6", "7",
                                      "8", "9">>[n + 1] = x

IfPresent(x) == IF Falsy(x) THEN Null ELSE x

\* mutant: the query is run without the appId check
GetResponseUnchecked(receiverId, appId, unreadOnly, type, channel, limit, skip) ==
  LET query == Query(receiverId, appId, unreadOnly = "true",
                     IfPresent(type), IfPresent(channel))
      lim == IF limit = Null THEN DefaultLimit ELSE parseInt(limit)
      skp == IF skip = Null THEN DefaultSkip ELSE parseInt(skip)
  IN  [NoRes EXCEPT
         !.kind = "list",
         !.notifications = find(query, skp, lim),
         !.total = countDocuments(Query(receiverId, appId, FALSE, Null, Null)),
         !.unreadCount = countDocuments(
                           Query(receiverId, appId, TRUE, Null, Null)),
         !.isOnline = isReceiverOnline(receiverId)]

\* router.get("/:receiverId"): the response for the current store
GetResponse(receiverId, appId, unreadOnly, type, channel, limit, skip) ==
  IF Falsy(appId)
  THEN Error("badRequest")
  ELSE LET query == Query(receiverId, appId, unreadOnly = "true",
                          IfPresent(type), IfPresent(channel))
           lim == IF limit = Null THEN DefaultLimit ELSE parseInt(limit)
           skp == IF skip = Null THEN DefaultSkip ELSE parseInt(skip)
       IN  [NoRes EXCEPT
              !.kind = "list",
              !.notifications = find(query, skp, lim),
              !.total = countDocuments(
                          Query(receiverId, appId, FALSE, Null, Null)),
              !.unreadCount = countDocuments(
                                Query(receiverId, appId, TRUE, Null, Null)),
              !.isOnline = isReceiverOnline(receiverId)]

\* mutant: the push is made before Notification.create has stored anything
PostCreatePushesFirst(receiverId, type, payload, appId, senderId, channel) ==
  /\ req' = [Request("post", receiverId, appId, type, channel, Null, Null,
                     Null, 0) EXCEPT !.payload = payload]
  /\ \/ /\ Falsy(receiverId) \/ Falsy(type)
        /\ res' = Error("badRequest")
        /\ out' = {}
        /\ UNCHANGED <<store, pending>>
     \/ /\ ~(Falsy(receiverId) \/ Falsy(type))
        /\ out' = sendNotification(receiverId, Len(store) + 1).emitted
        /\ \/ /\ res' = Error("storeError")
              /\ UNCHANGED <<store, pending>>
           \/ /\ Len(store) < MaxNotifs
              /\ Cardinality(pending) < MaxPending
              /\ store' = Append(store,
                            NewNotification(Len(store) + 1, receiverId, type,
                              IfPresent(payload), appId, senderId, channel))
              /\ pending' = pending \cup {Len(store) + 1}
              /\ res' = NoRes
  /\ UNCHANGED <<io, connected, activeConnections, rooms, lastEvt>>
  /\ UNCHANGED get
  /\ again' = FALSE

\* router.post("/"), up to the await of Notification.create
PostCreate(receiverId, type, payload, appId, senderId, channel) ==
  /\ req' = [Request("post", receiverId, appId, type, channel, Null, Null,
                     Null, 0) EXCEPT !.payload = payload]
  /\ out' = {}
  /\ \/ /\ Falsy(receiverId) \/ Falsy(type)
        /\ res' = Error("badRequest")
        /\ UNCHANGED <<store, pending>>
     \/ /\ ~(Falsy(receiverId) \/ Falsy(type))
        /\ \/ \* the store rejects the write
              /\ res' = Error("storeError")
              /\ UNCHANGED <<store, pending>>
           \/ /\ Len(store) < MaxNotifs
              /\ Cardinality(pending) < MaxPending
              /\ store' = Append(store,
                            NewNotification(Len(store) + 1, receiverId, type,
                              IfPresent(payload), appId, senderId, channel))
              /\ pending' = pending \cup {Len(store) + 1}
              /\ res' = NoRes
  /\ UNCHANGED <<io, connected, activeConnections, rooms, lastEvt>>
  /\ UNCHANGED get
  /\ again' = FALSE

\* mutant: the push drops the registry entries that have no socket left
PostPushPrunes(id) ==
  /\ id \in pending
  /\ LET sent == sendNotification(store[id].receiverId, id)
     IN  /\ out' = sent.emitted
         /\ res' = [NoRes EXCEPT !.kind = "created", !.id = id,
                                 !.delivered = sent.ret]
  /\ req' = Request("post", store[id].receiverId, store[id].appId,
                    store[id].type, store[id].channel, Null, Null, Null, id)
  /\ pending' = pending \ {id}
  /\ activeConnections' =
       [r \in {k \in DOMAIN activeConnections : activeConnections[k] # {}} |->
          activeConnections[r]]
  /\ UNCHANGED <<io, connected, rooms, lastEvt, store>>
  /\ UNCHANGED get
  /\ again' = FALSE

\* router.post("/"), from the return of Notification.create on
PostPush(id) ==
  /\ id \in pending
  /\ LET sent == sendNotification(store[id].receiverId, id)
     IN  /\ out' = sent.emitted
         /\ res' = [NoRes EXCEPT !.kind = "created", !.id = id,
                                 !.delivered = sent.ret]
  /\ req' = Request("post", store[id].receiverId, store[id].appId,
                    store[id].type, store[id].channel, Null, Null, Null, id)
  /\ pending' = pending \ {id}
  /\ UNCHANGED <<io, connected, activeConnections, rooms, lastEvt, store>>
  /\ UNCHANGED get
  /\ again' = FALSE

\* router.get("/:receiverId"), the three queries of its Promise.all answered
\* with no other step in between
Get(receiverId, appId, unreadOnly, type, channel, limit, skip) ==
  /\ req' = Request("get", receiverId, appId, type, channel, unreadOnly,
                    limit, skip, 0)
  /\ res' = GetResponse(receiverId, appId, unreadOnly, type, channel, limit,
                        skip)
  /\ out' = {}
  /\ UNCHANGED <<io, connected, activeConnections, rooms, lastEvt, store,
                 pending>>
  /\ UNCHANGED get
  /\ again' = FALSE

\* router.get("/:receiverId"), query by query: the handler validates, starts
\* the three queries of its Promise.all, and responds when all three have
\* been answered; MongoDB answers each from the collection as it then is, in
\* any order, other requests being handled in between.
GetStart(receiverId, appId, unreadOnly, type, channel, limit, skip) ==
  /\ ~get.active
  /\ req' = Request("get", receiverId, appId, type, channel, unreadOnly,
                    limit, skip, 0)
  /\ IF Falsy(appId)
     THEN /\ res' = Error("badRequest")
          /\ UNCHANGED get
     ELSE /\ res' = NoRes
          /\ get' = [NoGet EXCEPT !.active = TRUE, !.req = req']
  /\ out' = {}
  /\ UNCHANGED <<io, connected, activeConnections, rooms, lastEvt, store,
                 pending>>
  /\ again' = FALSE

\* Notification.find(query).sort({ createdAt: -1 }).skip(..).limit(..)
GetFind ==
  /\ get.active /\ "find" \notin get.done
  /\ LET r == get.req
         query == Query(r.receiverId, r.appId, r.unreadOnly = "true",
                        IfPresent(r.type), IfPresent(r.channel))
         lim == IF r.limit = Null THEN DefaultLimit ELSE parseInt(r.limit)
         skp == IF r.skip = Null THEN DefaultSkip ELSE parseInt(r.skip)
     IN  get' = [get EXCEPT !.notifications = find(query, skp, lim),
                            !.done = @ \cup {"find"}]
  /\ req' = get.req /\ res' = NoRes /\ out' = {}
  /\ UNCHANGED <<io, connected, activeConnections, rooms, lastEvt, store,
                 pending>>
  /\ again' = FALSE

\* Notification.countDocuments({ receiverId, appId })
GetTotal ==
  /\ get.active /\ "total" \notin get.done
  /\ get' = [get EXCEPT
               !.total = countDocuments(Query(get.req.receiverId,
                                              get.req.appId, FALSE, Null,
                                              Null)),
               !.done = @ \cup {"total"}]
  /\ req' = get.req /\ res' = NoRes /\ out' = {}
  /\ UNCHANGED <<io, connected, activeConnections, rooms, lastEvt, store,
                 pending>>
  /\ again' = FALSE

\* Notification.countDocuments({ receiverId, appId, read: false })
GetUnread ==
  /\ get.active /\ "unread" \notin get.done
  /\ get' = [get EXCEPT
               !.unreadCount = countDocuments(Query(get.req.receiverId,
                                                    get.req.appId, TRUE, Null,
                                                    Null)),
               !.done = @ \cup {"unread"}]
  /\ req' = get.req /\ res' = NoRes /\ out' = {}
  /\ UNCHANGED <<io, connected, activeConnections, rooms, lastEvt, store,
                 pending>>
  /\ again' = FALSE

\* res.json({ notifications, total, unreadCount, isOnline })
GetRespond ==
  /\ get.active /\ get.done = {"find", "total", "unread"}
  /\ req' = get.req
  /\ res' = [NoRes EXCEPT
               !.kind = "list",
               !.notifications = get.notifications,
               !.total = get.total,
               !.unreadCount = get.unreadCount,
               !.isOnline = isReceiverOnline(get.req.receiverId)]
  /\ get' = NoGet
  /\ out' = {}
  /\ UNCHANGED <<io, connected, activeConnections, rooms, lastEvt, store,
                 pending>>
  /\ again' = FALSE

\* mutant: the update toggles the flag instead of setting it
MarkReadToggles(id) ==
  /\ req' = Request("read", Null, Null, Null, Null, Null, Null, Null, id)
  /\ IF id \in Ids
     THEN /\ store[id].updatedAt < MaxUpdates
          /\ store' = [store EXCEPT ![id].read = ~@,
                                    ![id].updatedAt = @ + 1]
          /\ res' = [NoRes EXCEPT !.kind = "read", !.id = id]
     ELSE /\ res' = Error("notFound")
          /\ UNCHANGED store
  /\ out' = {}
  /\ UNCHANGED <<io, connected, activeConnections, rooms, lastEvt, pending>>
  /\ UNCHANGED get
  /\ again' = FALSE

\* mutant: the missing document is not checked for
MarkReadUnknownSucceeds(id) ==
  /\ req' = Request("read", Null, Null, Null, Null, Null, Null, Null, id)
  /\ IF id \in Ids
     THEN /\ store[id].updatedAt < MaxUpdates
          /\ store' = [store EXCEPT ![id].read = TRUE,
                                    ![id].updatedAt = @ + 1]
     ELSE UNCHANGED store
  /\ res' = [NoRes EXCEPT !.kind = "read", !.id = id]
  /\ out' = {}
  /\ UNCHANGED <<io, connected, activeConnections, rooms, lastEvt, pending>>
  /\ UNCHANGED get
  /\ again' = FALSE

\* router.patch("/:id/read"): findByIdAndUpdate(id, { read: true })
MarkRead(id) ==
  /\ req' = Request("read", Null, Null, Null, Null, Null, Null, Null, id)
  /\ IF id \in Ids
     THEN /\ store[id].updatedAt < MaxUpdates
          /\ store' = [store EXCEPT ![id].read = TRUE,
                                    ![id].updatedAt = @ + 1]
          /\ res' = [NoRes EXCEPT !.kind = "read", !.id = id]
     ELSE /\ res' = Error("notFound")
          /\ UNCHANGED store
  /\ out' = {}
  /\ UNCHANGED <<io, connected, activeConnections, rooms, lastEvt, pending>>
  /\ UNCHANGED get
  /\ again' = FALSE

\* mutant: the type and channel filters are left out of the update query
MarkAllReadIgnoresFilters(receiverId, appId, type, channel) ==
  /\ req' = Request("readAll", receiverId, appId, type, channel, Null, Null,
                    Null, 0)
  /\ IF Falsy(appId)
     THEN /\ res' = Error("badRequest")
          /\ UNCHANGED store
     ELSE LET query == Query(receiverId, appId, TRUE, Null, Null)
          IN  /\ store' = [i \in Ids |->
                             IF Matches(store[i], query)
                             THEN [store[i] EXCEPT !.read = TRUE,
                                                   !.updatedAt = @ + 1]
                             ELSE store[i]]
              /\ res' = [NoRes EXCEPT !.kind = "readAll",
                           !.modifiedCount = countDocuments(query)]
  /\ out' = {}
  /\ UNCHANGED <<io, connected, activeConnections, rooms, lastEvt, pending>>
  /\ UNCHANGED get
  /\ again' = FALSE

\* router.patch("/:receiverId/read-all")
MarkAllRead(receiverId, appId, type, channel) ==
  /\ req' = Request("readAll", receiverId, appId, type, channel, Null, Null,
                    Null, 0)
  /\ IF Falsy(appId)
     THEN /\ res' = Error("badRequest")
          /\ UNCHANGED store
     ELSE LET query == Query(receiverId, appId, TRUE, IfPresent(type),
                             IfPresent(channel))
          IN  /\ store' = [i \in Ids |->
                             IF Matches(store[i], query)
                             THEN [store[i] EXCEPT !.read = TRUE,
                                                   !.updatedAt = @ + 1]
                             ELSE store[i]]
              /\ res' = [NoRes EXCEPT !.kind = "readAll",
                           !.modifiedCount = countDocuments(query)]
  /\ out' = {}
  /\ UNCHANGED <<io, connected, activeConnections, rooms, lastEvt, pending>>
  /\ UNCHANGED get
  /\ again' = FALSE

\* ---------------------------------------------------------- specifications
\* PATCH /:id/read sent for an id that is unknown or not read yet (Spec and
\* SpecStore; the repeated requests are SpecRead's)
FirstMarkRead(id) ==
  /\ id \in Ids => ~store[id].read
  /\ MarkRead(id)

\* Spec: the delivery and presence side, every socket input, few store inputs
\* <<receiverId, type>>
SpecPosts ==
  { <<"r1", "chat">>, <<"r2", "chat">>, <<"", "chat">>, <<"r1", Null>> }

Next ==
  \/ initializeSocket
  \/ \E s \in Sessions : Connect(s)
  \/ \E s \in Sessions, r \in ReceiverIds \cup {""} : Subscribe(s, r)
  \/ \E s \in Sessions, r \in ReceiverIds \cup {""} : Unsubscribe(s, r)
  \/ \E s \in Sessions : Disconnect(s)
  \/ \E p \in SpecPosts : PostCreate(p[1], p[2], Null, "app1", Null, Null)
  \/ \E id \in 1..MaxNotifs : PostPush(id)
  \/ \E a \in {"app1", Null} :
       Get("r1", a, Null, Null, Null, Null, Null)
  \/ \E id \in {1, MaxNotifs + 1} : FirstMarkRead(id)
  \/ \E a \in {"app1", Null} :
       MarkAllRead("r1", a, Null, Null)

Spec == Init /\ [][Next]_vars

\* SpecStore: the store side, every store input, one socket and one room,
\* one POST at a time (racing creations are left to Spec)
\* <<receiverId, type, appId, channel, payload>>
StorePosts ==
  { <<"r1", "chat", "app1", Null, Null>>,
    <<"r1", "order", "app1", "c1", "{k:1}">>,
    <<"r1", "chat", "app2", Null, Null>>,
    <<"r1", "chat", Null, Null, Null>>,
    <<"r2", "chat", "app1", Null, Null>>,
    <<"", "chat", "app1", Null, Null>>,
    <<"r1", Null, "app1", Null, Null>> }

\* <<receiverId, appId, unreadOnly, limit, skip>>
StoreGets ==
  { <<"r1", "app1", Null, Null, Null>>, <<"r1", "app2", "true", "1", "1">>,
    <<"r2", "app1", Null, "1", Null>>, <<"r1", Null, Null, Null, Null>> }

\* <<receiverId, appId, type, channel>>
StoreReadAlls ==
  { <<"r1", "app1", Null, Null>>, <<"r1", "app1", "chat", Null>>,
    <<"r1", "app1", Null, "c1">>, <<"r1", "app2", Null, Null>>,
    <<"r2", "app1", Null, Null>>, <<"r1", Null, Null, Null>> }

NextStore ==
  \/ initializeSocket
  \/ Connect("s1")
  \/ Subscribe("s1", "r1")
  \/ Unsubscribe("s1", "r1")
  \/ Disconnect("s1")
  \/ /\ pending = {}
     /\ \E p \in StorePosts : PostCreate(p[1], p[2], p[5], p[3], Null, p[4])
  \/ \E id \in 1..MaxNotifs : PostPush(id)
  \/ \E g \in StoreGets : Get(g[1], g[2], g[3], Null, Null, g[4], g[5])
  \/ \E id \in 1..(MaxNotifs + 1) : FirstMarkRead(id)
  \/ \E f \in StoreReadAlls : MarkAllRead(f[1], f[2], f[3], f[4])

SpecStore == Init /\ [][NextStore]_vars

\* SpecRead: the read state, every notification marked read any number of
\* times, one receiver, one socket, one POST at a time
NextRead ==
  \/ initializeSocket
  \/ Connect("s1")
  \/ Subscribe("s1", "r1")
  \/ Unsubscribe("s1", "r1")
  \/ Disconnect("s1")
  \/ /\ pending = {}
     /\ \E a \in AppIds : PostCreate("r1", "chat", Null, a, Null, Null)
  \/ \E id \in 1..MaxNotifs : PostPush(id)
  \/ Get("r1", "app1", Null, Null, Null, Null, Null)
  \/ \E id \in 1..(MaxNotifs + 1) : MarkRead(id)
  \/ MarkAllRead("r1", "app1", Null, Null)

SpecRead == Init /\ [][NextRead]_vars

\* SpecGet: one GET answered query by query while notifications of its
\* receiver are created and marked read
NextGet ==
  \/ /\ pending = {}
     /\ PostCreate("r1", "chat", Null, "app1", Null, Null)
  \/ \E id \in 1..MaxNotifs : PostPush(id)
  \/ \E a \in {"app1", Null} : GetStart("r1", a, Null, Null, Null, Null, Null)
  \/ GetFind
  \/ GetTotal
  \/ GetUnread
  \/ GetRespond
  \/ \E id \in 1..MaxNotifs : FirstMarkRead(id)
  \/ MarkAllRead("r1", "app1", Null, Null)

SpecGet == Init /\ [][NextGet]_vars

\* SpecRooms: the rooms, with notifications addressed to a receiver id and
\* to a string that is the id of a socket
RoomNames == {"r1", "s1"}

NextRooms ==
  \/ initializeSocket
  \/ \E s \in Sessions : Connect(s)
  \/ \E s \in Sessions, r \in RoomNames : Subscribe(s, r)
  \/ \E s \in Sessions, r \in RoomNames : Unsubscribe(s, r)
  \/ \E s \in Sessions : Disconnect(s)
  \/ /\ pending = {}
     /\ \E r \in RoomNames : PostCreate(r, "chat", Null, "app1", Null, Null)
  \/ \E id \in 1..MaxNotifs : PostPush(id)

SpecRooms == Init /\ [][NextRooms]_vars

\* ------------------------------------------------------------ properties
\* the still-connected sockets whose last membership event for receiverId
\* was a subscribe
Subscribed(receiverId) ==
  {s \in connected : lastEvt[s][receiverId] = "subscribe"}

Notified(id) == {m.to : m \in {x \in out : x.event = "notification" /\ x.id = id}}

\* C1: a successful createAndDeliver returns delivered = true if and only if
\* the registry shows the receiver online at the moment of the push (the
\* push step leaves the registry as it found it).
C1_DeliveredIffOnline ==
  res.kind = "created" =>
    (res.delivered <=> isReceiverOnline(store[res.id].receiverId))

Listed(response) ==
  {response.notifications[j] : j \in 1..Len(response.notifications)}

\* C2 (as claimed): every notification whose createAndDeliver has returned
\* is returned by some list call for its receiverId, whatever appId it was
\* created with, and delivered = false never comes with a notification that
\* is missing from the store.
C2_AlwaysListable ==
  /\ \A id \in Ids \ pending :
       \E a \in AppIdArgs, u \in UnreadOnlyArgs, t \in TypeArgs,
          c \in ChannelArgs, l \in LimitArgs \cup {"2", "3"},
          k \in SkipArgs \cup {"0", "2"} :
         id \in Listed(GetResponse(store[id].receiverId, a, u, t, c, l, k))
  /\ (res.kind = "created" /\ ~res.delivered) => res.id \in Ids

\* C2 (amended): every notification whose createAndDeliver has returned and
\* that was created with a non-empty appId is returned by the list call for
\* its receiverId and that appId; delivered = false never comes with a
\* notification that is missing from the store.
C2_ListableUnderItsAppId ==
  /\ \A id \in Ids \ pending :
       ~Falsy(store[id].appId) =>
         id \in Listed(GetResponse(store[id].receiverId, store[id].appId,
                                   Null, Null, Null, Null, Null))
  /\ (res.kind = "created" /\ ~res.delivered) => res.id \in Ids

C2_Witness ==
  /\ res.kind = "created"
  /\ ~res.delivered
  /\ store[res.id].appId = "app2"
  /\ store[res.id].read
  /\ Len(store) = 2

\* C3: when the receiver has N >= 1 live sessions subscribed at push time,
\* the `notification` message goes to every one of them and delivered is
\* true.
C3_PushReachesEverySubscriber ==
  res.kind = "created" =>
    LET r == store[res.id].receiverId
    IN  Subscribed(r) # {} =>
          /\ res.delivered
          /\ \A s \in Subscribed(r) :
               Msg(s, "notification", r, res.id) \in out

C3_Witness ==
  /\ res.kind = "created"
  /\ Cardinality(Subscribed(store[res.id].receiverId)) = 2
  /\ Cardinality(Notified(res.id)) = 2

\* C4: the push of a createAndDeliver comes strictly after its persist: a
\* step that emits a `notification` event emits it for a notification that
\* was in the store before the step, and a creation that fails emits none
\* and stores nothing.
C4_PushAfterPersist ==
  [][ /\ \A m \in out' :
           m.event = "notification" =>
             /\ m.id \in 1..Len(store)
             /\ store[m.id].receiverId = m.receiverId
      /\ (req'.op = "post" /\ res'.kind \in {"badRequest", "storeError"}) =>
           /\ \A m \in out' : m.event # "notification"
           /\ store' = store ]_vars

C4_Witness ==
  /\ res.kind = "created"
  /\ Notified(res.id) # {}
  /\ res.id = Len(store)

\* C5: the registry never maps a receiverId to an empty set.
C5_NoEmptySets ==
  \A r \in DOMAIN activeConnections : activeConnections[r] # {}

\* C6: isOnline(receiverId) is true exactly when some still-connected
\* session's last membership event for that receiver was a subscribe.
C6_OnlineIffSubscribed ==
  \A r \in ReceiverIds : isReceiverOnline(r) <=> Subscribed(r) # {}

C6_Witness ==
  /\ "r1" \in DOMAIN activeConnections
  /\ ~isReceiverOnline("r1")
  /\ \E s \in connected : lastEvt[s]["r1"] = "none" /\ s \notin rooms["r1"]
  /\ \E s \in Sessions \ connected : lastEvt[s]["r1"] = "ended"
  /\ isReceiverOnline("r2")

\* C7: when a session ends it leaves every tracked set; a receiver for which
\* it was the last session goes offline, and a receiver with another live
\* session stays online with the other sessions of its set untouched.
C7_SessionEndFrame ==
  [][ \A s \in connected \ connected' :
        \A r \in ReceiverIds :
          /\ s \notin Tracked(r)'
          /\ (s \in Tracked(r) /\ Tracked(r) \ {s} = {}) =>
               ~isReceiverOnline(r)'
          /\ Tracked(r) \ {s} # {} =>
               /\ isReceiverOnline(r)'
               /\ Tracked(r)' = Tracked(r) \ {s} ]_vars

C7_Witness ==
  \E s \in Sessions \ connected :
    /\ lastEvt[s]["r1"] = "ended"
    /\ lastEvt[s]["r2"] = "ended"
    /\ ~isReceiverOnline("r1")
    /\ isReceiverOnline("r2")

\* C8: the read flag of a notification only ever goes from false to true:
\* no step of any operation removes a notification or turns a read one
\* back to unread.
C8_ReadIsAbsorbing ==
  [][ \A i \in 1..Len(store) :
        store[i].read => (i <= Len(store') /\ store'[i].read) ]_vars

C8_Witness ==
  /\ req.op = "read"
  /\ res.kind = "read"
  /\ \E i \in Ids : i # res.id /\ store[i].read
  /\ store[res.id].read

\* the scope of a read-all request, written out from its arguments
InScope(n, q) ==
  /\ n.receiverId = q.receiverId
  /\ n.appId = q.appId
  /\ ~n.read
  /\ ~Falsy(q.type) => n.type = q.type
  /\ ~Falsy(q.channel) => n.channel = q.channel

\* C9: markAllRead sets read on exactly the unread notifications of the
\* receiverId, the appId and the supplied type/channel, returns their number
\* and leaves every other notification as it was; the same call repeated
\* right away returns 0 and changes nothing.
C9_MarkAllReadScope ==
  [][ (req'.op = "readAll" /\ res'.kind = "readAll") =>
        LET scope == {i \in 1..Len(store) : InScope(store[i], req')}
        IN  /\ Len(store') = Len(store)
            /\ \A i \in 1..Len(store) :
                 store'[i] = IF i \in scope
                             THEN [store[i] EXCEPT !.read = TRUE,
                                                   !.updatedAt = @ + 1]
                             ELSE store[i]
            /\ res'.modifiedCount = Cardinality(scope)
            /\ (req = req' /\ res.kind = "readAll") =>
                 (res'.modifiedCount = 0 /\ store' = store) ]_vars

C9_Witness ==
  /\ req.op = "readAll"
  /\ res.kind = "readAll"
  /\ res.modifiedCount = 1
  /\ ~Falsy(req.channel)
  /\ \E i \in Ids :
       /\ store[i].receiverId = req.receiverId
       /\ store[i].appId = req.appId
       /\ store[i].channel # req.channel
       /\ ~store[i].read

\* C10: a list call with appId X returns only notifications of that
\* receiverId created with appId exactly X, and total / unreadCount count
\* exactly the notifications of that (receiverId, appId).
TenantIsolated(response, receiverId, appId) ==
  response.kind = "list" =>
    /\ \A i \in Listed(response) :
         /\ i \in Ids
         /\ store[i].receiverId = receiverId
         /\ store[i].appId = appId
    /\ response.total =
         Cardinality({i \in Ids : /\ store[i].receiverId = receiverId
                                  /\ store[i].appId = appId})
    /\ response.unreadCount =
         Cardinality({i \in Ids : /\ store[i].receiverId = receiverId
                                  /\ store[i].appId = appId
                                  /\ ~store[i].read})

C10_TenantIsolation ==
  /\ req.op = "get" => TenantIsolated(res, req.receiverId, req.appId)
  /\ \A r \in ReceiverIds, a \in AppIdArgs, t \in {Null, "order"},
        c \in ChannelArgs :
       TenantIsolated(GetResponse(r, a, Null, t, c, Null, Null), r, a)

C10_Witness ==
  /\ req.op = "get"
  /\ res.kind = "list"
  /\ Len(res.notifications) = 1
  /\ \E i \in Ids : /\ store[i].receiverId = req.receiverId
                    /\ store[i].appId = Null

C12_ValidationFailuresChangeNothing ==
  [][ /\ (req'.op = "post" /\ (Falsy(req'.receiverId) \/ Falsy(req'.type)))
           => /\ res'.kind = "badRequest"
              /\ store' = store
              /\ pending' = pending
              /\ out' = {}
      /\ (req'.op \in {"get", "readAll"} /\ Falsy(req'.appId))
           => /\ res'.kind = "badRequest"
              /\ store' = store
              /\ out' = {} ]_vars

C12_Witness ==
  /\ req.op = "readAll"
  /\ Falsy(req.appId)
  /\ res.kind = "badRequest"
  /\ \E i \in Ids : store[i].receiverId = req.receiverId /\ ~store[i].read

\* C13: a subscribe that is answered with `error` (the one sent with an empty
\* or missing receiverId, and no other) sends nothing else, joins the socket
\* to no room and leaves the registry unchanged; a subscribe is answered with
\* `subscribed` only for a non-empty receiverId, and then the socket is in
\* that receiver's room and tracked set (the set created if absent), no other
\* socket and no other receiver being touched.
C13_SubscribeValidation ==
  [][ \A m \in out' :
        /\ m.event = "error" =>
             /\ out' = {m}
             /\ m.to \in connected
             /\ rooms' = rooms
             /\ activeConnections' = activeConnections
        /\ m.event = "subscribed" =>
             /\ out' = {m}
             /\ ~Falsy(m.receiverId)
             /\ m.to \in connected
             /\ m.receiverId \in DOMAIN activeConnections'
             /\ Tracked(m.receiverId)' = Tracked(m.receiverId) \cup {m.to}
             /\ rooms'[m.receiverId] = rooms[m.receiverId] \cup {m.to}
             /\ \A r \in ReceiverIds \ {m.receiverId} :
                  /\ Tracked(r)' = Tracked(r)
                  /\ rooms'[r] = rooms[r] ]_vars

\* an `error` answer given while the registry holds entries
C13_WitnessError ==
  /\ \E m \in out : m.event = "error"
  /\ activeConnections # << >>

\* a `subscribed` answer for a receiver whose set the subscribe created
C13_Witness ==
  \E m \in out :
    /\ m.event = "subscribed"
    /\ Tracked(m.receiverId) = {m.to}
    /\ \E s \in connected \ {m.to} : lastEvt[s][m.receiverId] = "none"

\* C14 (as claimed): the counts of a GET response track the store, total
\* being the number of stored notifications of that (receiverId, appId) and
\* unreadCount the number of those with read = false, so that
\* unreadCount <= total in every response.
C14_UnreadAtMostTotal ==
  (req.op = "get" /\ res.kind = "list") => res.unreadCount <= res.total

\* C14, the counts of a response against the store it is sent from
C14_CountsTrackStore ==
  (req.op = "get" /\ res.kind = "list") =>
    /\ res.total = countDocuments(Query(req.receiverId, req.appId, FALSE,
                                        Null, Null))
    /\ res.unreadCount = countDocuments(Query(req.receiverId, req.appId,
                                              TRUE, Null, Null))

\* C15: every valid creation stores (and returns) a notification with
\* read = false, with channel "default" when the request omitted channel and
\* the given channel otherwise, and with payload the empty map when the
\* request omitted payload and the given payload otherwise.
C15_CreationDefaults ==
  [][ Len(store') > Len(store) =>
        LET n == store'[Len(store')]
        IN  /\ Len(store') = Len(store) + 1
            /\ req'.op = "post"
            /\ ~Falsy(req'.receiverId) /\ ~Falsy(req'.type)
            /\ n.receiverId = req'.receiverId
            /\ n.type = req'.type
            /\ n.read = FALSE
            /\ n.channel = IF req'.channel = Null THEN "default"
                                                  ELSE req'.channel
            /\ n.payload = IF req'.payload = Null THEN "{}"
                                                  ELSE req'.payload ]_vars

\* a creation that omitted channel and payload, after one that gave both
C15_Witness ==
  /\ req.op = "post" /\ res.kind = "none"
  /\ req.channel = Null /\ req.payload = Null
  /\ Len(store) = 2
  /\ store[1].channel = "c1" /\ store[1].payload = "{k:1}"
  /\ store[2].channel = "default" /\ store[2].payload = "{}"
  /\ ~store[2].read

\* C16: an unsubscribe (the one step of a connected socket that answers
\* nothing and is no request, connection or disconnection) of socket s for
\* receiver r takes s out of r's room and tracked set and changes nothing
\* else: the registry keeps its keys, every other receiver's set and room and
\* every other socket's memberships are as before, the store is untouched,
\* and when s was not tracked for r the registry is unchanged.
C16_UnsubscribeFrame ==
  [][ (req'.op = "none" /\ out' = {} /\ connected' = connected /\ io' = io)
        => \E s \in connected, r \in ReceiverArgs :
             /\ \A x \in DOMAIN rooms :
                  rooms'[x] = IF x = r THEN rooms[x] \ {s} ELSE rooms[x]
             /\ DOMAIN activeConnections' = DOMAIN activeConnections
             /\ \A x \in DOMAIN activeConnections :
                  activeConnections'[x] =
                    IF x = r THEN activeConnections[x] \ {s}
                             ELSE activeConnections[x]
             /\ s \notin Tracked(r) => activeConnections' = activeConnections
             /\ store' = store /\ pending' = pending ]_vars

\* the last socket of a receiver has unsubscribed from it (its set is left
\* empty) while it and another socket stay subscribed to another receiver
C16_Witness ==
  /\ req.op = "none" /\ out = {}
  /\ \E s \in connected, t \in connected, r \in ReceiverIds,
        q \in ReceiverIds :
       /\ s # t /\ r # q
       /\ r \in DOMAIN activeConnections
       /\ activeConnections[r] = {} /\ rooms[r] = {}
       /\ Tracked(q) = {s, t} /\ rooms[q] = {s, t}

\* C17: the registry (its keys and its sets) changes only in a step of a
\* socket handler of a connected socket (subscribe, unsubscribe, disconnect):
\* no HTTP request (create, push, list with its counts and isOnline,
\* markRead, markAllRead), no initialisation and no new connection changes
\* it.
C17_RegistryWriters ==
  [][ activeConnections' # activeConnections
        => /\ req'.op = "none"
           /\ io /\ io' = io
           /\ connected # {}
           /\ connected' \subseteq connected
           /\ store' = store /\ pending' = pending ]_vars

\* a push made while the registry holds a key whose set is empty and a key
\* whose set is not
C17_Witness ==
  /\ res.kind = "created"
  /\ \E r \in DOMAIN activeConnections : activeConnections[r] = {}
  /\ \E r \in DOMAIN activeConnections : activeConnections[r] # {}

\* C18 (as claimed): in every reachable state the sockets in the room a push
\* for r is emitted to are the sockets of r's tracked set, so that
\* isReceiverOnline(r) is true exactly when a push to r reaches a socket.
C18_RoomIsTrackedSet ==
  \A r \in Rooms :
    /\ rooms[r] = Tracked(r)
    /\ isReceiverOnline(r) <=> rooms[r] # {}

\* C19 (as claimed): a `notification` message pushed for receiver r is handed
\* only to sockets whose last membership event for r is a subscribe: not to a
\* socket subscribed to other receivers only, to one that unsubscribed from
\* r, or to one that has ended.
C19_OnlySubscribersReceive ==
  \A m \in out :
    m.event = "notification" =>
      /\ m.to \in connected
      /\ lastEvt[m.to][m.receiverId] = "subscribe"

\* C20: a subscribe of a socket to a receiver whose tracked set already holds
\* it changes neither the registry nor the rooms (twice is as once), and any
\* step that ends a subscription of socket s to receiver r (an unsubscribe,
\* the end of the session), however often s had subscribed, leaves s in
\* neither r's tracked set nor r's room, r being offline afterwards if s was
\* its only socket.
C20_SubscribeIdempotent ==
  [][ /\ again' =>
           /\ activeConnections' = activeConnections
           /\ rooms' = rooms
           /\ lastEvt' = lastEvt
           /\ \E m \in out' : m.event = "subscribed" /\ out' = {m}
      /\ \A s \in connected, r \in ReceiverIds :
           (lastEvt[s][r] = "subscribe" /\ lastEvt'[s][r] # "subscribe") =>
             /\ s \notin Tracked(r)'
             /\ s \notin rooms'[r]
             /\ Tracked(r) \subseteq {s} => ~isReceiverOnline(r)' ]_vars

\* a socket that is the only one of its receiver has subscribed again
C20_Witness ==
  /\ again
  /\ \E m \in out :
       /\ m.event = "subscribed"
       /\ Tracked(m.receiverId) = {m.to}
       /\ rooms[m.receiverId] = {m.to}
       /\ isReceiverOnline(m.receiverId)
====
